---- MODULE Spec2Model ----
(***************************************************************************)
(* BlogBot (src/main.py): a three-stage research / writing / editing       *)
(* pipeline over a remote completion service, with the output sanitizer    *)
(* clean_agent_output and the per-stage validation conditions.             *)
(*                                                                         *)
(* Python strings are modelled as sequences of one-character strings, so   *)
(* that slicing, prefix tests, substring tests and the two regular-        *)
(* expression substitutions are computed character by character.           *)
(***************************************************************************)
EXTENDS Integers, Sequences, FiniteSets, TLC

VARIABLES
    pc,               \* position of the script run
    has_key,          \* os.getenv("GOOGLE_API_KEY") is not None
    blog_name,        \* st.text_input value
    calls,            \* user_proxy.initiate_chat calls issued, in order
    research_result,  \* what the research initiate_chat produced
    writing_result,   \* what the writing initiate_chat produced
    editing_result,   \* what the editing initiate_chat produced
    research_content, \* line 115
    blog_post_draft,  \* line 142
    final_blog_post,  \* line 167
    displayed,        \* streamlit elements emitted, in order
    output,           \* argument of a direct clean_agent_output application
    cleaned,          \* clean_agent_output(output)
    recleaned,        \* clean_agent_output(clean_agent_output(output))
    lead, body, trail,\* the parts output was assembled from
    san_pc            \* position of the direct sanitizer application

pipe_vars == <<pc, has_key, blog_name, calls, research_result, writing_result,
               editing_result, research_content, blog_post_draft,
               final_blog_post, displayed>>

san_vars == <<output, cleaned, recleaned, lead, body, trail, san_pc>>

vars == <<pipe_vars, san_vars>>

----------------------------------------------------------------------------
(* Bounds *)

\* number of pieces a sanitizer test body is assembled from
MaxPieces == 3

----------------------------------------------------------------------------
(* Python str primitives *)

UpperCase ==
    <<"A", "B", "C", "D", "E", "F", "G", "H", "I", "J", "K", "L", "M",
      "N", "O", "P", "Q", "R", "S", "T", "U", "V", "W", "X", "Y", "Z">>

LowerCase ==
    <<"a", "b", "c", "d", "e", "f", "g", "h", "i", "j", "k", "l", "m",
      "n", "o", "p", "q", "r", "s", "t", "u", "v", "w", "x", "y", "z">>

\* str.lower on one character
LowerChar(c) ==
    IF \E i \in 1..26 : UpperCase[i] = c
    THEN LowerCase[CHOOSE i \in 1..26 : UpperCase[i] = c]
    ELSE c

\* str.lower
lower(s) == [i \in 1..Len(s) |-> LowerChar(s[i])]

\* the characters \s and str.strip treat as whitespace
IsSpace(c) == c \in {" ", "\n", "\t"}

\* p occurs in s at index i
HasAt(s, i, p) ==
    /\ i >= 1
    /\ i + Len(p) - 1 <= Len(s)
    /\ \A k \in 1..Len(p) : s[i + k - 1] = p[k]

\* str.startswith
startswith(s, p) == HasAt(s, 1, p)

\* the `in` operator on strings
Contains(s, p) == \E i \in 1..(Len(s) - Len(p) + 1) : HasAt(s, i, p)

\* length of the maximal whitespace run s starts with
LeadingSpaces(s) ==
    IF \A i \in 1..Len(s) : IsSpace(s[i])
    THEN Len(s)
    ELSE (CHOOSE i \in 1..Len(s) :
              /\ ~IsSpace(s[i])
              /\ \A j \in 1..(i - 1) : IsSpace(s[j])) - 1

\* str.strip
strip(s) ==
    IF \A i \in 1..Len(s) : IsSpace(s[i])
    THEN <<>>
    ELSE LET first == LeadingSpaces(s) + 1
             last  == CHOOSE i \in 1..Len(s) :
                          /\ ~IsSpace(s[i])
                          /\ \A j \in (i + 1)..Len(s) : IsSpace(s[j])
         IN  SubSeq(s, first, last)

----------------------------------------------------------------------------
(* clean_agent_output *)

\* the literal '>>>>>>>> ' both patterns contain
Marker ==
    <<">", ">", ">", ">", ">", ">", ">", ">", " ">>

\* faulty variant: the greedy pattern '^\s*>>>>>>>> .*\n', which runs to the
\* last newline of the string
RemoveLeadingBanner_Greedy(s) ==
    LET w     == LeadingSpaces(s)
        from  == w + Len(Marker) + 1
        ends  == {j \in from..Len(s) : s[j] = "\n"}
    IN  IF HasAt(s, w + 1, Marker) /\ ends # {}
        THEN LET e == CHOOSE j \in ends : \A k \in ends : j >= k
             IN  SubSeq(s, e + 1, Len(s))
        ELSE s

\* re.sub(r'^\s*>>>>>>>> .*?\n', '', output, flags=re.DOTALL):
\* anchored at the start of the string; \s* takes the whole leading
\* whitespace run (a shorter run is followed by whitespace, not '>'), the
\* marker must follow, and the lazy .*? stops at the first newline after it.
RemoveLeadingBanner(s) ==
    LET w     == LeadingSpaces(s)
        from  == w + Len(Marker) + 1
        ends  == {j \in from..Len(s) : s[j] = "\n"}
    IN  IF HasAt(s, w + 1, Marker) /\ ends # {}
        THEN LET e == CHOOSE j \in ends : \A k \in ends : j <= k
             IN  SubSeq(s, e + 1, Len(s))
        ELSE s

\* re.sub(r'\n>>>>>>>> .*?\s*$', '', output, flags=re.DOTALL):
\* the leftmost newline followed by the marker; with DOTALL the lazy .*?
\* can always be extended to the end of the string, and $ holds nowhere
\* before the trailing whitespace run, so the match runs to the end.
RemoveTrailingBanner(s) ==
    LET starts == {i \in 1..Len(s) : s[i] = "\n" /\ HasAt(s, i + 1, Marker)}
    IN  IF starts # {}
        THEN LET b == CHOOSE i \in starts : \A k \in starts : i <= k
             IN  SubSeq(s, 1, b - 1)
        ELSE s

clean_agent_output(s) == strip(RemoveTrailingBanner(RemoveLeadingBanner(s)))

----------------------------------------------------------------------------
(* Literals of the orchestration flow *)

ResearchPlaceholder ==
    <<"N", "o", " ", "r", "e", "s", "e", "a", "r", "c", "h", " ", "c", "o", "n", "t", "e", "n",
      "t", " ", "g", "e", "n", "e", "r", "a", "t", "e", "d", ".">>

DraftPlaceholder ==
    <<"N", "o", " ", "b", "l", "o", "g", " ", "p", "o", "s", "t", " ", "d", "r", "a", "f", "t",
      " ", "g", "e", "n", "e", "r", "a", "t", "e", "d", ".">>

FinalPlaceholder ==
    <<"N", "o", " ", "f", "i", "n", "a", "l", " ", "b", "l", "o", "g", " ", "p", "o", "s", "t",
      " ", "g", "e", "n", "e", "r", "a", "t", "e", "d", ".">>

Okay ==
    <<"o", "k", "a", "y">>

Awaiting ==
    <<"a", "w", "a", "i", "t", "i", "n", "g">>

IWillNowProceed ==
    <<"i", " ", "w", "i", "l", "l", " ", "n", "o", "w", " ", "p", "r", "o", "c", "e", "e", "d">>

ICannotCreate ==
    <<"i", " ", "c", "a", "n", "n", "o", "t", " ", "c", "r", "e", "a", "t", "e">>

FactChecking ==
    <<"f", "a", "c", "t", "-", "c", "h", "e", "c", "k", "i", "n", "g", " ", "p", "r", "o", "c",
      "e", "s", "s">>

VisualIntegration ==
    <<"v", "i", "s", "u", "a", "l", " ", "i", "n", "t", "e", "g", "r", "a", "t", "i", "o", "n">>

ResearchTaskHead ==
    <<"R", "e", "s", "e", "a", "r", "c", "h", " ", "c", "o", "n", "t", "e", "n", "t", " ", "f",
      "o", "r", " ", "a", " ", "b", "l", "o", "g", " ", "p", "o", "s", "t", " ", "o", "n", " ",
      "t", "h", "e", " ", "t", "o", "p", "i", "c", ":", " ">>

ResearchTaskTail ==
    <<".", " ", "P", "r", "o", "v", "i", "d", "e", " ", "k", "e", "y", " ", "p", "o", "i", "n",
      "t", "s", ",", " ", "f", "a", "c", "t", "s", ",", " ", "a", "n", "d", " ", "p", "o", "t",
      "e", "n", "t", "i", "a", "l", " ", "s", "e", "c", "t", "i", "o", "n", "s", ".">>

WritingTaskHead ==
    <<"W", "r", "i", "t", "e", " ", "a", " ", "c", "o", "m", "p", "r", "e", "h", "e", "n", "s",
      "i", "v", "e", " ", "b", "l", "o", "g", " ", "p", "o", "s", "t", " ", "b", "a", "s", "e",
      "d", " ", "o", "n", " ", "t", "h", "e", " ", "f", "o", "l", "l", "o", "w", "i", "n", "g",
      " ", "r", "e", "s", "e", "a", "r", "c", "h", " ", "f", "i", "n", "d", "i", "n", "g", "s",
      ":", "\n", "\n">>

WritingTaskTail ==
    <<"\n", "\n", "E", "n", "s", "u", "r", "e", " ", "i", "t", " ", "i", "s", " ", "e", "n",
      "g", "a", "g", "i", "n", "g", " ", "a", "n", "d", " ", "w", "e", "l", "l", "-", "s", "t",
      "r", "u", "c", "t", "u", "r", "e", "d", ".">>

EditingTaskHead ==
    <<"R", "e", "v", "i", "e", "w", " ", "a", "n", "d", " ", "i", "m", "p", "r", "o", "v", "e",
      " ", "t", "h", "e", " ", "f", "o", "l", "l", "o", "w", "i", "n", "g", " ", "b", "l", "o",
      "g", " ", "p", "o", "s", "t", " ", "f", "o", "r", " ", "c", "l", "a", "r", "i", "t", "y",
      ",", " ", "f", "l", "o", "w", ",", " ", "a", "n", "d", " ", "a", "c", "c", "u", "r", "a",
      "c", "y", ".", " ", "M", "a", "k", "e", " ", "i", "t", " ", "m", "o", "r", "e", " ", "m",
      "e", "a", "n", "i", "n", "g", "f", "u", "l", " ", "a", "n", "d", " ", "e", "n", "g", "a",
      "g", "i", "n", "g", ".", " ", "P", "r", "o", "v", "i", "d", "e", " ", "t", "h", "e", " ",
      "f", "i", "n", "a", "l", ",", " ", "p", "o", "l", "i", "s", "h", "e", "d", " ", "b", "l",
      "o", "g", " ", "p", "o", "s", "t", ".", "\n", "\n">>

ResearchError == "Research failed or returned invalid content. Cannot proceed with writing."

WritingError == "Writing failed or returned no content. Cannot proceed with editing."

EditingError == "Editing failed or returned no content."

WriterInfo == "Writer is drafting the blog post..."

EditorInfo == "Editor is reviewing and improving the blog post..."

FinalHeading == "Final Blog Post:"

SuccessMessage == "Blog post generation complete!"

TopicWarning == "Please enter a topic name."

\* the f-strings of lines 105, 132 and 157
research_task(topic) == ResearchTaskHead \o topic \o ResearchTaskTail

writing_task(content) == WritingTaskHead \o content \o WritingTaskTail

editing_task(draft) == EditingTaskHead \o draft

\* one streamlit element: st.<kind>(label) for the fixed messages,
\* st.write(text) for generated content
Element(kind, label, text) == [kind |-> kind, label |-> label, text |-> text]

\* one initiate_chat call
Call(agent, message) == [agent |-> agent, message |-> message]

----------------------------------------------------------------------------
(* What initiate_chat can produce: an exception, no usable result (None or *)
(* an empty summary), or a ChatResult whose summary is a string.           *)

Pending == [kind |-> "pending", summary |-> <<>>]

Raised == [kind |-> "raise", summary |-> <<>>]

NoResult == [kind |-> "none", summary |-> <<>>]

ChatResult(s) == [kind |-> "text", summary |-> s]

TopicX ==
    <<"t", "o", "p", "i", "c", " ", "X">>

BulletFacts ==
    <<"b", "u", "l", "l", "e", "t", " ", "f", "a", "c", "t", "s">>

DraftParagraph ==
    <<"a", " ", "d", "r", "a", "f", "t", " ", "p", "a", "r", "a", "g", "r", "a", "p", "h">>

OkaySure ==
    <<"O", "K", "A", "Y", " ", "s", "u", "r", "e">>

OkayDraft ==
    <<"O", "k", "a", "y", ",", " ", "I", " ", "w", "i", "l", "l", " ", "d", "r", "a", "f", "t",
      " ", "t", "h", "i", "s", " ", "n", "o", "w", ".">>

AwaitingInput ==
    <<"A", "w", "a", "i", "t", "i", "n", "g", " ", "i", "n", "p", "u", "t">>

ProceedText ==
    <<"I", " ", "w", "i", "l", "l", " ", "n", "o", "w", " ", "p", "r", "o", "c", "e", "e", "d",
      " ", "t", "o", " ", "w", "r", "i", "t", "e", ".">>

CannotCreateText ==
    <<"I", " ", "c", "a", "n", "n", "o", "t", " ", "c", "r", "e", "a", "t", "e", " ", "t", "h",
      "i", "s", " ", "c", "o", "n", "t", "e", "n", "t", ".">>

BlankText ==
    <<" ", "\n">>

BannerWrapped ==
    <<">", ">", ">", ">", ">", ">", ">", ">", " ", "s", "o", "m", "e", " ", "b", "a", "n", "n",
      "e", "r", "\n", "A", "C", "T", "U", "A", "L", " ", "C", "O", "N", "T", "E", "N", "T",
      "\n", ">", ">", ">", ">", ">", ">", ">", ">", " ", "e", "n", "d", " ", "b", "a", "n",
      "n", "e", "r">>

BannerWrappedOkay ==
    <<">", ">", ">", ">", ">", ">", ">", ">", " ", "U", "S", "I", "N", "G", " ", "A", "U", "T",
      "O", " ", "R", "E", "P", "L", "Y", ".", ".", ".", "\n", "o", "k", "a", "y", "\n", ">",
      ">", ">", ">", ">", ">", ">", ">", " ", "T", "E", "R", "M", "I", "N", "A", "T", "I", "N",
      "G", " ", "R", "U", "N">>

FactCheckText ==
    <<"T", "h", "e", " ", "F", "a", "c", "t", "-", "C", "h", "e", "c", "k", "i", "n", "g", " ",
      "P", "r", "o", "c", "e", "s", "s">>

VisualText ==
    <<"O", "n", " ", "v", "i", "s", "u", "a", "l", " ", "i", "n", "t", "e", "g", "r", "a", "t",
      "i", "o", "n">>

Topics == {<<>>, TopicX}

Summaries ==
    {<<>>, BulletFacts, DraftParagraph, OkaySure, OkayDraft, AwaitingInput,
     ProceedText, CannotCreateText, BlankText, BannerWrapped,
     BannerWrappedOkay, FactCheckText, VisualText, ResearchPlaceholder,
     DraftPlaceholder, FinalPlaceholder}

Responses == {Raised, NoResult} \cup {ChatResult(s) : s \in Summaries}

\* `result.summary if result and result.summary else placeholder`
summary_or(result, placeholder) ==
    IF result.kind = "text" /\ result.summary # <<>>
    THEN result.summary
    ELSE placeholder

----------------------------------------------------------------------------
(* Validation conditions *)

\* line 127
ResearchInvalid(c) ==
    \/ c = <<>>
    \/ Contains(c, ResearchPlaceholder)
    \/ startswith(lower(strip(c)), Okay)
    \/ startswith(lower(strip(c)), Awaiting)
    \/ Contains(lower(c), FactChecking)
    \/ Contains(lower(c), VisualIntegration)
    \/ startswith(lower(strip(c)), IWillNowProceed)

\* line 152
WritingInvalid(c) ==
    \/ c = <<>>
    \/ Contains(c, DraftPlaceholder)
    \/ startswith(lower(strip(c)), ICannotCreate)
    \/ startswith(lower(strip(c)), IWillNowProceed)

\* faulty variant: the placeholder test left out
EditingValid_NoSentinel(c) ==
    /\ c # <<>>
    /\ ~startswith(lower(strip(c)), IWillNowProceed)

\* line 171
EditingValid(c) ==
    /\ c # <<>>
    /\ ~Contains(c, FinalPlaceholder)
    /\ ~startswith(lower(strip(c)), IWillNowProceed)

----------------------------------------------------------------------------
(* The script run *)

PipeInit ==
    /\ pc = "startup"
    /\ has_key = FALSE
    /\ blog_name = <<>>
    /\ calls = <<>>
    /\ research_result = Pending
    /\ writing_result = Pending
    /\ editing_result = Pending
    /\ research_content = <<>>
    /\ blog_post_draft = <<>>
    /\ final_blog_post = <<>>
    /\ displayed = <<>>

\* the sanitizer is not being applied directly
SanIdle ==
    /\ output = <<>>
    /\ cleaned = <<>>
    /\ recleaned = <<>>
    /\ lead = <<>>
    /\ body = <<>>
    /\ trail = <<>>
    /\ san_pc = "idle"

Init == PipeInit /\ SanIdle

\* What constructing the agents can do. The script passes os.getenv's value
\* on unchecked (lines 14, 20); with the key absent the library
\* constructors of lines 33-78 either accept the missing key or raise.
Constructions(key) == IF key THEN {"ok"} ELSE {"ok", "raise"}

\* lines 11-94: load the environment, configure, construct the agents,
\* show the title
Startup(key, construction) ==
    /\ pc = "startup"
    /\ construction \in Constructions(key)
    /\ has_key' = key
    /\ IF construction = "raise"
       THEN /\ pc' = "crashed"
            /\ displayed' = displayed
       ELSE /\ pc' = "form"
            /\ displayed' = Append(displayed, Element("title", "BlogBot", <<>>))
    /\ UNCHANGED <<blog_name, calls, research_result, writing_result,
                   editing_result, research_content, blog_post_draft,
                   final_blog_post, san_vars>>

\* lines 96-98 and 176-177: the text input, the button, the topic test
Form(name, clicked) ==
    /\ pc = "form"
    /\ blog_name' = name
    /\ IF ~clicked
       THEN /\ pc' = "done"
            /\ displayed' = displayed
       ELSE IF name = <<>>
       THEN /\ pc' = "done"
            /\ displayed' = Append(displayed, Element("warning", TopicWarning, <<>>))
       ELSE /\ pc' = "research"
            /\ displayed' = displayed
    /\ UNCHANGED <<has_key, calls, research_result, writing_result,
                   editing_result, research_content, blog_post_draft,
                   final_blog_post, san_vars>>

\* faulty variant: a rejected research result is requested again
ResearchStage_Retry(resp) ==
    /\ pc = "research"
    /\ calls' = Append(calls, Call("Researcher", research_task(blog_name)))
    /\ research_result' = resp
    /\ IF resp.kind = "raise"
       THEN /\ pc' = "crashed"
            /\ UNCHANGED <<research_content, displayed>>
       ELSE LET content == clean_agent_output(summary_or(resp, ResearchPlaceholder))
            IN  /\ research_content' = content
                /\ IF ResearchInvalid(content)
                   THEN /\ displayed' = Append(displayed, Element("error", ResearchError, <<>>))
                        /\ pc' = IF Len(calls) < 2 THEN "research" ELSE "done"
                   ELSE /\ displayed' = Append(displayed, Element("info", WriterInfo, <<>>))
                        /\ pc' = "writing"
    /\ UNCHANGED <<has_key, blog_name, writing_result, editing_result,
                   blog_post_draft, final_blog_post, san_vars>>

\* lines 105-131: the research call, its cleaning and its validation.
\* An exception of initiate_chat is caught nowhere and ends the run.
ResearchStage(resp) ==
    /\ pc = "research"
    /\ calls' = Append(calls, Call("Researcher", research_task(blog_name)))
    /\ research_result' = resp
    /\ IF resp.kind = "raise"
       THEN /\ pc' = "crashed"
            /\ UNCHANGED <<research_content, displayed>>
       ELSE LET content == clean_agent_output(summary_or(resp, ResearchPlaceholder))
            IN  /\ research_content' = content
                /\ IF ResearchInvalid(content)
                   THEN /\ displayed' = Append(displayed, Element("error", ResearchError, <<>>))
                        /\ pc' = "done"
                   ELSE /\ displayed' = Append(displayed, Element("info", WriterInfo, <<>>))
                        /\ pc' = "writing"
    /\ UNCHANGED <<has_key, blog_name, writing_result, editing_result,
                   blog_post_draft, final_blog_post, san_vars>>

\* faulty variant: the editing stage is entered although the draft was
\* rejected (the else branch of line 154 not nested)
WritingStage_NoHalt(resp) ==
    /\ pc = "writing"
    /\ calls' = Append(calls, Call("Writer", writing_task(research_content)))
    /\ writing_result' = resp
    /\ IF resp.kind = "raise"
       THEN /\ pc' = "crashed"
            /\ UNCHANGED <<blog_post_draft, displayed>>
       ELSE LET content == clean_agent_output(summary_or(resp, DraftPlaceholder))
            IN  /\ blog_post_draft' = content
                /\ pc' = "editing"
                /\ IF WritingInvalid(content)
                   THEN displayed' = displayed \o <<Element("error", WritingError, <<>>),
                                                    Element("info", EditorInfo, <<>>)>>
                   ELSE displayed' = Append(displayed, Element("info", EditorInfo, <<>>))
    /\ UNCHANGED <<has_key, blog_name, research_result, editing_result,
                   research_content, final_blog_post, san_vars>>

\* faulty variant: the writing task embeds the research summary as returned,
\* not the cleaned research_content
WritingStage_FedRaw(resp) ==
    /\ pc = "writing"
    /\ calls' = Append(calls, Call("Writer",
                    writing_task(summary_or(research_result, ResearchPlaceholder))))
    /\ writing_result' = resp
    /\ IF resp.kind = "raise"
       THEN /\ pc' = "crashed"
            /\ UNCHANGED <<blog_post_draft, displayed>>
       ELSE LET content == clean_agent_output(summary_or(resp, DraftPlaceholder))
            IN  /\ blog_post_draft' = content
                /\ IF WritingInvalid(content)
                   THEN /\ displayed' = Append(displayed, Element("error", WritingError, <<>>))
                        /\ pc' = "done"
                   ELSE /\ displayed' = Append(displayed, Element("info", EditorInfo, <<>>))
                        /\ pc' = "editing"
    /\ UNCHANGED <<has_key, blog_name, research_result, editing_result,
                   research_content, final_blog_post, san_vars>>

\* lines 132-156: the writing call, its cleaning and its validation
WritingStage(resp) ==
    /\ pc = "writing"
    /\ calls' = Append(calls, Call("Writer", writing_task(research_content)))
    /\ writing_result' = resp
    /\ IF resp.kind = "raise"
       THEN /\ pc' = "crashed"
            /\ UNCHANGED <<blog_post_draft, displayed>>
       ELSE LET content == clean_agent_output(summary_or(resp, DraftPlaceholder))
            IN  /\ blog_post_draft' = content
                /\ IF WritingInvalid(content)
                   THEN /\ displayed' = Append(displayed, Element("error", WritingError, <<>>))
                        /\ pc' = "done"
                   ELSE /\ displayed' = Append(displayed, Element("info", EditorInfo, <<>>))
                        /\ pc' = "editing"
    /\ UNCHANGED <<has_key, blog_name, research_result, editing_result,
                   research_content, final_blog_post, san_vars>>

\* lines 157-174: the editing call, its cleaning, the display of the
\* result under the final heading, and then its validation
EditingStage(resp) ==
    /\ pc = "editing"
    /\ calls' = Append(calls, Call("Editor", editing_task(blog_post_draft)))
    /\ editing_result' = resp
    /\ IF resp.kind = "raise"
       THEN /\ pc' = "crashed"
            /\ UNCHANGED <<final_blog_post, displayed>>
       ELSE LET content == clean_agent_output(summary_or(resp, FinalPlaceholder))
                shown   == displayed \o <<Element("subheader", FinalHeading, <<>>),
                                          Element("write", "", content)>>
            IN  /\ final_blog_post' = content
                /\ pc' = "done"
                /\ IF EditingValid(content)
                   THEN displayed' = Append(shown, Element("success", SuccessMessage, <<>>))
                   ELSE displayed' = Append(shown, Element("error", EditingError, <<>>))
    /\ UNCHANGED <<has_key, blog_name, research_result, writing_result,
                   research_content, blog_post_draft, san_vars>>

Next ==
    \/ \E key \in BOOLEAN, construction \in {"ok", "raise"} : Startup(key, construction)
    \/ \E name \in Topics, clicked \in BOOLEAN : Form(name, clicked)
    \/ \E resp \in Responses : ResearchStage(resp)
    \/ \E resp \in Responses : WritingStage(resp)
    \/ \E resp \in Responses : EditingStage(resp)

Spec == Init /\ [][Next]_vars

----------------------------------------------------------------------------
(* Direct applications of clean_agent_output to assembled strings *)

LeadBanner ==
    <<">", ">", ">", ">", ">", ">", ">", ">", " ", "s", "o", "m", "e", " ", "b", "a", "n", "n",
      "e", "r", "\n">>

LeadBannerIndented ==
    <<" ", "\n", ">", ">", ">", ">", ">", ">", ">", ">", " ", "x", "\n">>

TrailBanner ==
    <<"\n", ">", ">", ">", ">", ">", ">", ">", ">", " ", "e", "n", "d", " ", "b", "a", "n",
      "n", "e", "r">>

TrailBannerBlock ==
    <<"\n", ">", ">", ">", ">", ">", ">", ">", ">", " ", "T", "E", "R", "M", "I", "N", "A",
      "T", "I", "N", "G", " ", "R", "U", "N", "\n", "b", "y", "e", " ", "\n">>

Glyphs ==
    <<">", ">", ">", ">", ">", ">", ">", ">">>

\* the pieces a body is assembled from
Pieces == {<<"C">>, <<" ">>, <<"\n">>, Marker, Glyphs}

RECURSIVE Flatten(_)
Flatten(ps) == IF ps = <<>> THEN <<>> ELSE Head(ps) \o Flatten(Tail(ps))

Bodies == {Flatten(ps) : ps \in UNION {[1..n -> Pieces] : n \in 0..MaxPieces}}

Leads == {<<>>, LeadBanner, LeadBannerIndented}

Trails == {<<>>, TrailBanner, TrailBannerBlock}

SanInit ==
    /\ PipeInit
    /\ lead \in Leads
    /\ body \in Bodies
    /\ trail \in Trails
    /\ output = lead \o body \o trail
    /\ cleaned = <<>>
    /\ recleaned = <<>>
    /\ san_pc = "raw"

\* clean_agent_output(output)
Clean ==
    /\ san_pc = "raw"
    /\ cleaned' = clean_agent_output(output)
    /\ san_pc' = "once"
    /\ UNCHANGED <<output, recleaned, lead, body, trail, pipe_vars>>

\* clean_agent_output applied to its own result
CleanAgain ==
    /\ san_pc = "once"
    /\ recleaned' = clean_agent_output(cleaned)
    /\ san_pc' = "twice"
    /\ UNCHANGED <<output, cleaned, lead, body, trail, pipe_vars>>

SanNext == Clean \/ CleanAgain

SanSpec == SanInit /\ [][SanNext]_vars

----------------------------------------------------------------------------
(* Vocabulary of the properties *)

\* initiate_chat returned (did not raise) for this stage
Returned(result) == result.kind \in {"none", "text"}

\* the service returned no content for this stage
Absent(result) == result.kind = "none" \/ (result.kind = "text" /\ result.summary = <<>>)

Shown(kind, label) ==
    \E i \in 1..Len(displayed) : displayed[i].kind = kind /\ displayed[i].label = label

LastShown(kind, label) ==
    /\ displayed # <<>>
    /\ displayed[Len(displayed)].kind = kind
    /\ displayed[Len(displayed)].label = label

Called(agent) == \E i \in 1..Len(calls) : calls[i].agent = agent

\* the texts shown by st.write
WrittenTexts == {displayed[i].text : i \in {j \in 1..Len(displayed) : displayed[j].kind = "write"}}

StageOrder == <<"Researcher", "Writer", "Editor">>

FillerPrefixes == {Okay, Awaiting, IWillNowProceed}

FillerPrefixed(c) == \E p \in FillerPrefixes : startswith(lower(strip(c)), p)

----------------------------------------------------------------------------
(* Properties of the pipeline, checked under Spec *)

\* C1: the first stage whose sanitized output is rejected halts the
\* pipeline: no later stage is called, no later task message is built from
\* the rejected text, and the last thing shown is that stage's error.
HaltsOnFirstRejection ==
    /\ (Returned(research_result) /\ ResearchInvalid(research_content)) =>
           /\ ~Called("Writer") /\ ~Called("Editor")
           /\ \A i \in 1..Len(calls) : calls[i].message # writing_task(research_content)
           /\ LastShown("error", ResearchError)
           /\ pc = "done"
    /\ (Returned(writing_result) /\ WritingInvalid(blog_post_draft)) =>
           /\ ~Called("Editor")
           /\ \A i \in 1..Len(calls) : calls[i].message # editing_task(blog_post_draft)
           /\ LastShown("error", WritingError)
           /\ pc = "done"
    /\ (Returned(editing_result) /\ ~EditingValid(final_blog_post)) =>
           /\ Len(calls) = 3
           /\ LastShown("error", EditingError)
           /\ pc = "done"

\* C1 witness: the writing stage was rejected after research was accepted
WritingRejected ==
    /\ Returned(writing_result)
    /\ WritingInvalid(blog_post_draft)
    /\ ~ResearchInvalid(research_content)
    /\ Len(calls) = 2
    /\ pc = "done"

\* C2: whatever is shown under the final-content heading is the editing
\* stage's sanitized output and has passed the editing validation.
OnlyValidatedContentShown ==
    \A t \in WrittenTexts :
        /\ t = clean_agent_output(summary_or(editing_result, FinalPlaceholder))
        /\ EditingValid(t)

\* C3: calls are issued in the order research, writing, editing; each
\* message embeds the topic or exactly the previous stage's sanitized,
\* accepted text; success is shown only after three accepted stages, with
\* the editing stage's sanitized text as the content shown.
StagesFedInOrder ==
    /\ Len(calls) <= 3
    /\ \A i \in 1..Len(calls) : calls[i].agent = StageOrder[i]
    /\ Len(calls) >= 1 =>
           /\ blog_name # <<>>
           /\ calls[1].message = ResearchTaskHead \o blog_name \o ResearchTaskTail
    /\ Len(calls) >= 2 =>
           /\ Returned(research_result)
           /\ ~ResearchInvalid(research_content)
           /\ research_content =
                  clean_agent_output(summary_or(research_result, ResearchPlaceholder))
           /\ calls[2].message = WritingTaskHead \o research_content \o WritingTaskTail
    /\ Len(calls) >= 3 =>
           /\ Returned(writing_result)
           /\ ~WritingInvalid(blog_post_draft)
           /\ blog_post_draft =
                  clean_agent_output(summary_or(writing_result, DraftPlaceholder))
           /\ calls[3].message = EditingTaskHead \o blog_post_draft
    /\ Shown("success", SuccessMessage) =>
           /\ Len(calls) = 3
           /\ Returned(editing_result)
           /\ EditingValid(final_blog_post)
           /\ final_blog_post =
                  clean_agent_output(summary_or(editing_result, FinalPlaceholder))
           /\ WrittenTexts = {final_blog_post}

\* C3 witness: a successful run whose stages each returned text that the
\* sanitizer changed or left alone, fed forward stage by stage
SuccessfulRun ==
    /\ Shown("success", SuccessMessage)
    /\ research_result.summary = BannerWrapped
    /\ research_content # research_result.summary
    /\ Len(calls) = 3

\* C4: a stage whose completion call raised ends as a displayed failure
\* naming the stage, and the run does not end abnormally.
ServiceFailureDisplayed ==
    /\ research_result = Raised => (pc # "crashed" /\ Shown("error", ResearchError))
    /\ writing_result = Raised => (pc # "crashed" /\ Shown("error", WritingError))
    /\ editing_result = Raised => (pc # "crashed" /\ Shown("error", EditingError))

\* C7: at every stage a sanitized text beginning (trimmed, lower-cased)
\* with "okay", "awaiting" or "i will now proceed" is rejected.
FillerRejectedEverywhere ==
    /\ (Returned(research_result) /\ FillerPrefixed(research_content)) =>
           (LastShown("error", ResearchError) /\ ~Called("Writer"))
    /\ (Returned(writing_result) /\ FillerPrefixed(blog_post_draft)) =>
           (LastShown("error", WritingError) /\ ~Called("Editor"))
    /\ (Returned(editing_result) /\ FillerPrefixed(final_blog_post)) =>
           (LastShown("error", EditingError) /\ ~Shown("success", SuccessMessage))

\* C8: an absent completion becomes the stage's placeholder, and a stage
\* whose sanitized text is empty or its placeholder fails: its error is the
\* last thing shown and success is never shown.
AbsentCompletionFails ==
    /\ (Returned(research_result) /\ Absent(research_result)) =>
           research_content = ResearchPlaceholder
    /\ (Returned(writing_result) /\ Absent(writing_result)) =>
           blog_post_draft = DraftPlaceholder
    /\ (Returned(editing_result) /\ Absent(editing_result)) =>
           final_blog_post = FinalPlaceholder
    /\ (Returned(research_result) /\ research_content \in {<<>>, ResearchPlaceholder}) =>
           (pc = "done" /\ LastShown("error", ResearchError))
    /\ (Returned(writing_result) /\ blog_post_draft \in {<<>>, DraftPlaceholder}) =>
           (pc = "done" /\ LastShown("error", WritingError))
    /\ (Returned(editing_result) /\ final_blog_post \in {<<>>, FinalPlaceholder}) =>
           (pc = "done" /\ LastShown("error", EditingError)
                        /\ ~Shown("success", SuccessMessage))

\* C8 witness: the editing call returned no content after two accepted stages
EditorReturnedNothing ==
    /\ Absent(editing_result)
    /\ Returned(editing_result)
    /\ final_blog_post = FinalPlaceholder
    /\ LastShown("error", EditingError)

\* C9: each stage's completion call is issued at most once, at most three
\* calls in all, and the call log only grows by a call to a stage that has
\* not been requested before.
NoStageRetried ==
    /\ [](/\ Len(calls) <= 3
          /\ \A i, j \in 1..Len(calls) : calls[i].agent = calls[j].agent => i = j)
    /\ [][\/ calls' = calls
          \/ /\ Len(calls') = Len(calls) + 1
             /\ SubSeq(calls', 1, Len(calls)) = calls
             /\ ~Called(calls'[Len(calls')].agent)]_vars

\* C9 witness: the editing stage failed after all three calls were issued
AllCalledEditorFailed ==
    /\ Len(calls) = 3
    /\ pc = "done"
    /\ ~Shown("success", SuccessMessage)

\* C10: in a run started without the API key no completion call is issued.
NoCallWithoutKey == (pc # "startup" /\ ~has_key) => calls = <<>>

----------------------------------------------------------------------------
(* Properties of clean_agent_output, checked under SanSpec *)

\* C5: cleaning a cleaned string changes nothing.
CleanIdempotent == san_pc = "twice" => recleaned = cleaned

\* C6: a leading banner line, a body without the marker, and a trailing
\* banner block clean to the trimmed body; a string without the marker
\* cleans to itself, trimmed.
BannersRemoved ==
    san_pc # "raw" =>
        /\ (lead # <<>> /\ trail # <<>> /\ ~Contains(body, Marker)) =>
               cleaned = strip(body)
        /\ ~Contains(output, Marker) => cleaned = strip(output)

\* C6 witness: both banners were removed from around a body that needed
\* trimming as well
BannersRemovedAndTrimmed ==
    /\ san_pc = "once"
    /\ lead = LeadBanner
    /\ trail = TrailBanner
    /\ ~Contains(body, Marker)
    /\ cleaned # <<>>
    /\ cleaned # body
    /\ cleaned = strip(body)

====
